---- MODULE Spec2Model ----
(***************************************************************************)
(* PlayerCore (packages/mediafox): the load / play / pause / seek / stop   *)
(* orchestration over StateFacade, TrackManager, TrackSwitcher and         *)
(* PlaybackController, as a state machine.  Every async method is split    *)
(* at its awaits: one action for the synchronous prefix run by the call,   *)
(* one action per continuation that runs when the awaited promise settles. *)
(* Callers are free to issue a call while earlier calls are still pending. *)
(* A second part models the React hook useAVPlay (packages/react): its     *)
(* renders, its two effects and the dynamic import that creates the player.*)
(***************************************************************************)
EXTENDS Integers, Sequences, FiniteSets, TLC

\* Bounds of the model: calls issued in one run, and the largest media time.
MaxCalls == 2
MaxTime == 1

\* A pending call occupies a slot; the slot is free again once the call returned.
Slots == 1..MaxCalls
Times == 0..MaxTime
\* options.startTime === undefined, and "no time" in an event payload
NoTime == -1

VARIABLES
    st,        \* StateFacade: the current PlayerState
    ctrl,      \* PlaybackController
    tm,        \* TrackManager: the tracks of the input it was last initialized from
    calls,     \* the pending public-method calls, by slot
    nCalls,    \* how many calls were issued
    everReady, \* some load() has marked the player ready
    notified,  \* last step: the snapshots handed to subscribers, in order
    emitted,   \* last step: the events emitted, in order
    invoked,   \* last step: the PlaybackController methods invoked, in order
    last,      \* last step: the call whose code ran, as the step left it
    phase,     \* useAVPlay: the component is new, mounted or unmounted
    optsId,    \* useAVPlay: the identity of playerOptions in the last render
    handler,   \* useAVPlay: the identity of the on* handler in the last render
    imports,   \* useAVPlay: the pending dynamic imports, by their playerOptions
    players,   \* useAVPlay: the AVPlay instances created, in order
    playerRef, \* useAVPlay: playerRef.current, 0 for null
    hcleanup,  \* useAVPlay: the cleanup the handler effect returned last
    delivered  \* useAVPlay: the last event a player emitted and whom it reached

playerVars == <<st, ctrl, tm, calls, nCalls, everReady, notified, emitted, invoked, last>>
hookVars == <<phase, optsId, handler, imports, players, playerRef, hcleanup, delivered>>
vars == <<playerVars, hookVars>>

----------------------------------------------------------------------------
\* Values

NoError == [kind |-> "none", call |-> 0, msg |-> ""]
Err(kind, c) == [kind |-> kind, call |-> c, msg |-> ""]
ErrMsg(kind, c, msg) == [kind |-> kind, call |-> c, msg |-> msg]

DefaultNoTrackMsg == "No audio or video track found."

NullInfo ==
    [set |-> FALSE, src |-> 0, duration |-> 0,
     hasVideo |-> FALSE, hasAudio |-> FALSE, hasSubtitles |-> FALSE]

EmptyTracks == [video |-> <<>>, audio |-> <<>>, subtitle |-> <<>>]

\* the idle defaults reset() restores
IdleState ==
    [state |-> "idle", duration |-> 0, currentTime |-> 0, isPlaying |-> FALSE,
     mediaInfo |-> NullInfo, tracks |-> EmptyTracks, error |-> NoError]

\* The source of call c is source c; its input reports duration c.
DurationOf(src) == src

\* A call: the method (kind), where it is suspended (pc), its arguments, the
\* primary tracks load() read (v, a), the error it holds or rejected with; and,
\* recorded for the properties: the names of the events it emitted (own), whether
\* a later load() has begun since (superseded), whether any call emitted an error
\* event after this load's loadstart and before its canplaythrough (errSeen),
\* the kinds of the other calls that were pending or ran while this one was
\* pending (during), the lifecycle state the call was made in (from), and, in the
\* step in which the TrackSwitcher answered, its answer (sw).
NoAnswer == [asked |-> FALSE, v |-> FALSE, a |-> FALSE, w |-> ""]

NoCall ==
    [slot |-> 0, kind |-> "none", pc |-> "-", autoplay |-> FALSE, startTime |-> NoTime,
     time |-> NoTime, v |-> FALSE, a |-> FALSE, err |-> NoError,
     own |-> <<>>, superseded |-> FALSE, errSeen |-> FALSE, during |-> {},
     from |-> "-", sw |-> NoAnswer]

----------------------------------------------------------------------------
\* One synchronous run of code works on a context x:
\*   x.s  the PlayerState, x.n the snapshots notified so far in this run,
\*   x.ev the events emitted so far in this run, x.k the PlaybackController,
\*   x.inv the controller methods invoked so far in this run.

Ctx == [s |-> st, n |-> <<>>, ev |-> <<>>, k |-> ctrl, inv |-> <<>>]

\* StateFacade: every setter replaces the state and notifies the subscribers.
Notify(x, s2) == [x EXCEPT !.s = s2, !.n = Append(@, s2)]

reset(x) == Notify(x, IdleState)

updateLoadingState(x) == Notify(x, [x.s EXCEPT !.state = "loading"])

updateReadyState(x) == Notify(x, [x.s EXCEPT !.state = "ready"])

updateDuration(x, d) == Notify(x, [x.s EXCEPT !.duration = d])

updateMediaInfo(x, info) == Notify(x, [x.s EXCEPT !.mediaInfo = info])

updateTracks(x, v, a, sub) ==
    Notify(x, [x.s EXCEPT !.tracks = [video |-> v, audio |-> a, subtitle |-> sub]])

updatePlaybackState(x, playing) == Notify(x, [x.s EXCEPT !.isPlaying = playing])

\* ready <-> seeking: the seeking flag is the lifecycle tag "seeking"
updateSeekingState(x, seeking) ==
    Notify(x, [x.s EXCEPT !.state =
        IF seeking THEN (IF @ = "ready" THEN "seeking" ELSE @)
                   ELSE (IF @ = "seeking" THEN "ready" ELSE @)])

updateTime(x, t) == Notify(x, [x.s EXCEPT !.currentTime = t])

\* * -> error
updateError(x, e) == Notify(x, [x.s EXCEPT !.state = "error", !.error = e])

\* Event emission layer
emit(x, name, c, t, e) ==
    [x EXCEPT !.ev = Append(@, [name |-> name, call |-> c, time |-> t, err |-> e])]

\* PlaybackController
ctrlSetDuration(x, d) == [x EXCEPT !.k.duration = d, !.inv = Append(@, "setDuration")]
ctrlPlayInvoke(x) == [x EXCEPT !.inv = Append(@, "play")]
ctrlPlayDone(x) == [x EXCEPT !.k.playing = TRUE]
ctrlPauseInvoke(x) == [x EXCEPT !.inv = Append(@, "pause")]
ctrlPause(x) == [ctrlPauseInvoke(x) EXCEPT !.k.playing = FALSE]
ctrlSeekInvoke(x) == [x EXCEPT !.inv = Append(@, "seek")]
ctrlSeekDone(x, r) == [x EXCEPT !.k.time = r]
\* where seek(t) may leave the controller: at t, or snapped back to the keyframe at 0
Landings(t) == {t, 0}
getCurrentTime(x) == x.k.time

----------------------------------------------------------------------------
\* PlayerCore

handleError(x, e, c) == emit(updateError(x, e), "error", c, NoTime, e)

\* play() without the idle test
playBody_NoIdleGuard(x, c) ==
    [x |-> ctrlPlayInvoke(x), out |-> "await", err |-> NoError]

\* play(), lines 205-208: up to the await of PlaybackController.play()
playBody(x, c) ==
    IF x.s.state = "idle"
    THEN [x |-> x, out |-> "throw", err |-> Err("NoMediaLoaded", c)]
    ELSE [x |-> ctrlPlayInvoke(x), out |-> "await", err |-> NoError]

\* play(), lines 209-211: after the await
playDone(x, c) ==
    emit(emit(updatePlaybackState(x, TRUE), "play", c, NoTime, NoError),
         "playing", c, NoTime, NoError)

\* play(), lines 212-215
playCatch(x, e, c) == handleError(x, e, c)

\* the synchronous start of a play() call: body, and catch when it threw
playStart(x, c) ==
    LET b == playBody(x, c)
    IN IF b.out = "throw"
       THEN [x |-> playCatch(b.x, b.err, c), out |-> "rejected", err |-> b.err]
       ELSE b

\* the continuation of play() when PlaybackController.play() settled
playResume(x, c, ok) ==
    IF ok
    THEN [x |-> playDone(ctrlPlayDone(x), c), out |-> "resolved", err |-> NoError]
    ELSE [x |-> playCatch(x, Err("PlayFailed", c), c), out |-> "rejected",
          err |-> Err("PlayFailed", c)]

\* pause() that emits its event only when the player was playing
pauseBody_Deduplicated(x, c, ok) ==
    IF ok
    THEN [x |-> IF x.s.isPlaying
                THEN emit(updatePlaybackState(ctrlPause(x), FALSE), "pause", c, NoTime, NoError)
                ELSE updatePlaybackState(ctrlPause(x), FALSE),
          out |-> "return", err |-> NoError]
    ELSE [x |-> ctrlPauseInvoke(x), out |-> "throw", err |-> Err("PauseFailed", c)]

\* pause(), lines 218-222: no try/catch, so what PlaybackController.pause() throws
\* leaves pause() as it is, with the two lines after it not run
pauseBody(x, c, ok) ==
    IF ok
    THEN [x |-> emit(updatePlaybackState(ctrlPause(x), FALSE), "pause", c, NoTime, NoError),
          out |-> "return", err |-> NoError]
    ELSE [x |-> ctrlPauseInvoke(x), out |-> "throw", err |-> Err("PauseFailed", c)]

\* seek() that emits no seeking event
seekBody_NoSeekingEvent(x, c, t) ==
    IF x.s.state = "idle"
    THEN [x |-> x, out |-> "throw", err |-> Err("NoMediaLoaded", c)]
    ELSE [x |-> ctrlSeekInvoke(updateSeekingState(x, TRUE)), out |-> "await", err |-> NoError]

\* seek(), lines 226-232: up to the await of PlaybackController.seek(time)
seekBody(x, c, t) ==
    IF x.s.state = "idle"
    THEN [x |-> x, out |-> "throw", err |-> Err("NoMediaLoaded", c)]
    ELSE [x |-> ctrlSeekInvoke(emit(updateSeekingState(x, TRUE), "seeking", c, t, NoError)),
          out |-> "await", err |-> NoError]

\* seek() that reports in seeked the time the state held before the seek
seekDone_StaleTime(x, c) ==
    emit(updateTime(updateSeekingState(x, FALSE), getCurrentTime(x)),
         "seeked", c, x.s.currentTime, NoError)

\* seek(), lines 233-235: after the await
seekDone(x, c) ==
    emit(updateTime(updateSeekingState(x, FALSE), getCurrentTime(x)),
         "seeked", c, getCurrentTime(x), NoError)

\* seek()'s catch without the updateSeekingState(false) of line 237
seekCatch_NoClear(x, e, c) == handleError(x, e, c)

\* seek(), lines 236-240
seekCatch(x, e, c) == handleError(updateSeekingState(x, FALSE), e, c)

seekStart(x, c, t) ==
    LET b == seekBody(x, c, t)
    IN IF b.out = "throw"
       THEN [x |-> seekCatch(b.x, b.err, c), out |-> "rejected", err |-> b.err]
       ELSE b

\* the continuation of seek() when PlaybackController.seek() settled; on success
\* the controller stands at r, which need not be the requested time
seekResume(x, c, ok, r) ==
    IF ok
    THEN [x |-> seekDone(ctrlSeekDone(x, r), c), out |-> "resolved", err |-> NoError]
    ELSE [x |-> seekCatch(x, Err("SeekFailed", c), c), out |-> "rejected",
          err |-> Err("SeekFailed", c)]

\* stop(), lines 247-250
stopCatch(x, e, c) == handleError(x, e, c)

\* load() that starts without reset()
loadBegin_NoReset(x, c) == emit(updateLoadingState(x), "loadstart", c, NoTime, NoError)

\* load(), lines 122-124
loadBegin(x, c) ==
    emit(updateLoadingState(reset(x)), "loadstart", c, NoTime, NoError)

\* load()'s catch that still commits the duration of the failed attempt
loadCatch_CommitsDuration(x, e, c) == handleError(updateDuration(x, DurationOf(c)), e, c)

\* load(), lines 197-200
loadCatch(x, e, c) == handleError(x, e, c)

\* load(), lines 142-150: the MediaInfo assembled from the input and the TrackManager
mediaInfoOf(c, t) ==
    [set |-> TRUE, src |-> c, duration |-> DurationOf(c),
     hasVideo |-> t.video # <<>>, hasAudio |-> t.audio # <<>>,
     hasSubtitles |-> t.subtitle # <<>>]

\* load(), lines 152-160
loadCommit(x, c, t) ==
    ctrlSetDuration(
        updateTracks(
            updateMediaInfo(updateDuration(x, DurationOf(c)), mediaInfoOf(c, t)),
            t.video, t.audio, t.subtitle),
        DurationOf(c))

\* load(), lines 195-196 from the startTime test on
loadStartTime(x, c, startTime) ==
    IF startTime # NoTime
    THEN LET q == seekStart(x, c, startTime)
         IN [x |-> q.x, pc |-> IF q.out = "await" THEN "sseek" ELSE "sseekret",
             err |-> q.err]
    ELSE [x |-> x, pc |-> "resolved", err |-> NoError]

\* the ready events with canplay emitted before loadeddata
loadReady_Reordered(x, c) ==
    emit(emit(emit(emit(updateReadyState(x),
        "loadedmetadata", c, NoTime, NoError),
        "canplay", c, NoTime, NoError),
        "loadeddata", c, NoTime, NoError),
        "canplaythrough", c, NoTime, NoError)

\* load(), lines 188-193
loadReady(x, c) ==
    emit(emit(emit(emit(updateReadyState(x),
        "loadedmetadata", c, NoTime, NoError),
        "loadeddata", c, NoTime, NoError),
        "canplay", c, NoTime, NoError),
        "canplaythrough", c, NoTime, NoError)

\* load() that drops the switcher's message
loadWarning_Silent(x, c, vS, aS, w) == x

\* load(), lines 180-186
loadWarning(x, c, vS, aS, w) ==
    IF w # "" /\ (vS \/ aS)
    THEN emit(x, "warning", c, NoTime, ErrMsg("codec-warning", c, w))
    ELSE x

\* load(), lines 175-196: from the decision on the switcher's answer to the first
\* await behind it (or the return)
loadTail(x, c, autoplay, startTime, vS, aS, w) ==
    IF ~vS /\ ~aS
    THEN LET e == ErrMsg("NoPlayableTrack", c, IF w = "" THEN DefaultNoTrackMsg ELSE w)
         IN [x |-> loadCatch(x, e, c), pc |-> "rejected", err |-> e]
    ELSE LET x1 == loadReady(loadWarning(x, c, vS, aS, w), c)
         IN IF autoplay
            THEN LET p == playStart(x1, c)
                 IN [x |-> p.x, pc |-> IF p.out = "await" THEN "aplay" ELSE "aplayret",
                     err |-> p.err]
            ELSE loadStartTime(x1, c, startTime)

Init ==
    /\ st = IdleState
    /\ ctrl = [time |-> 0, duration |-> 0, playing |-> FALSE]
    /\ tm = [src |-> 0, video |-> <<>>, audio |-> <<>>, subtitle |-> <<>>]
    /\ calls = [c \in Slots |-> NoCall]
    /\ nCalls = 0
    /\ everReady = FALSE
    /\ notified = <<>>
    /\ emitted = <<>>
    /\ invoked = <<>>
    /\ last = NoCall
    /\ phase = "new"
    /\ optsId = 0
    /\ handler = 0
    /\ imports = {}
    /\ players = <<>>
    /\ playerRef = 0
    /\ hcleanup = [set |-> FALSE, player |-> 0, h |-> 0]
    /\ delivered = [player |-> 0, to |-> {}, wanted |-> 0]

----------------------------------------------------------------------------
\* Actions: a call's synchronous start, and each continuation

Fetches == {"computeDuration", "getFormat", "getMimeType", "getMetadataTags"}
Warnings == {"", "Unsupported codec."}
\* options.startTime: absent, or the last media time
StartTimes == {NoTime, MaxTime}

Names(ev) == [i \in 1..Len(ev) |-> ev[i].name]
Has(ev, name) == \E i \in 1..Len(ev) : ev[i].name = name
Pending(d) == calls[d].kind # "none"
Settled(rec) == rec.pc \in {"resolved", "rejected"}

\* what the step of another call, of the given kind, records in pending call d
Observe(d, x, kind) ==
    IF ~Pending(d) THEN NoCall
    ELSE [calls[d] EXCEPT
            !.during = @ \cup {kind},
            !.superseded = @ \/ Has(x.ev, "loadstart"),
            !.errSeen = @ \/ (/\ calls[d].kind = "load"
                              /\ \A i \in 1..Len(calls[d].own) : calls[d].own[i] # "canplaythrough"
                              /\ Has(x.ev, "error"))]

\* The step of call c ends: x is what its code did, rec is where it stands now.
Finish(c, x, rec) ==
    LET rec2 == [rec EXCEPT !.own = @ \o Names(x.ev),
                            !.during = @ \cup {calls[d].kind : d \in {e \in Slots \ {c} : Pending(e)}}]
    IN /\ st' = x.s
       /\ ctrl' = x.k
       /\ notified' = x.n
       /\ emitted' = x.ev
       /\ invoked' = x.inv
       /\ last' = rec2
       /\ calls' = [d \in Slots |->
                       IF d = c THEN (IF Settled(rec2) THEN NoCall
                                      ELSE [rec2 EXCEPT !.sw = NoAnswer])
                       ELSE Observe(d, x, rec.kind)]
       /\ everReady' = (everReady \/ Has(x.ev, "canplaythrough"))
       /\ UNCHANGED hookVars

\* a new call takes the lowest free slot
IsNew(c) ==
    /\ nCalls < MaxCalls
    /\ ~Pending(c)
    /\ \A d \in Slots : d < c => Pending(d)

New(c, kind) == [NoCall EXCEPT !.slot = c, !.kind = kind, !.from = st.state]

At(c, kind, pc) == calls[c].kind = kind /\ calls[c].pc = pc

Goto(c, pc, e) == [calls[c] EXCEPT !.pc = pc, !.err = e]

\* load(source, options), lines 120-127: runs to the await of createSource
LoadCall(c, autoplay, startTime) ==
    /\ IsNew(c)
    /\ Finish(c, loadBegin(Ctx, c),
              [New(c, "load") EXCEPT !.pc = "src", !.autoplay = autoplay,
                                     !.startTime = startTime])
    /\ nCalls' = nCalls + 1
    /\ UNCHANGED tm

\* lines 127-132: createSource settled; on success runs to the await of initialize
LoadSourceSettles(c, outcome) ==
    /\ At(c, "load", "src")
    /\ IF outcome = "ok"
       THEN Finish(c, Ctx, Goto(c, "init", NoError))
       ELSE LET e == Err(IF outcome = "noinput" THEN "NoInput" ELSE "SourceFailed", c)
            IN Finish(c, loadCatch(Ctx, e, c), Goto(c, "rejected", e))
    /\ UNCHANGED <<tm, nCalls>>

\* lines 132-140: trackManager.initialize settled; the TrackManager now holds the
\* tracks of this input (hv, ha: it has a video / an audio track)
LoadInitSettles(c, ok, hv, ha) ==
    /\ At(c, "load", "init")
    /\ IF ok
       THEN /\ tm' = [src |-> c, video |-> IF hv THEN <<c>> ELSE <<>>,
                      audio |-> IF ha THEN <<c>> ELSE <<>>, subtitle |-> <<>>]
            /\ Finish(c, Ctx, Goto(c, "meta", NoError))
       ELSE /\ ~hv /\ ~ha
            /\ UNCHANGED tm
            /\ Finish(c, loadCatch(Ctx, Err("InitFailed", c), c),
                      Goto(c, "rejected", Err("InitFailed", c)))
    /\ UNCHANGED nCalls

\* lines 135-178: Promise.all settled (ok, or the first of the four fetches to
\* reject); commits the metadata, reads the primary tracks and awaits the
\* switcher, or fails at once when there is no track
LoadMetaSettles(c, outcome) ==
    /\ At(c, "load", "meta")
    /\ UNCHANGED <<tm, nCalls>>
    /\ IF outcome = "ok"
       THEN LET x == loadCommit(Ctx, c, tm)
                v == tm.video # <<>>
                a == tm.audio # <<>>
            IN IF v \/ a
               THEN Finish(c, x, [calls[c] EXCEPT !.pc = "switch", !.v = v, !.a = a])
               ELSE LET r == loadTail(x, c, calls[c].autoplay, calls[c].startTime,
                                      FALSE, FALSE, "")
                    IN Finish(c, r.x, Goto(c, r.pc, r.err))
       ELSE Finish(c, loadCatch(Ctx, Err("MetadataFailed", c), c),
                   Goto(c, "rejected", Err("MetadataFailed", c)))

\* lines 169-196: setupInitialTracks answered; only a requested track can be
\* supported, and a reason is reported only for a track that is not
LoadSwitchSettles(c, vS, aS, w) ==
    /\ At(c, "load", "switch")
    /\ vS => calls[c].v
    /\ aS => calls[c].a
    /\ w # "" => (calls[c].v /\ ~vS) \/ (calls[c].a /\ ~aS)
    /\ LET r == loadTail(Ctx, c, calls[c].autoplay, calls[c].startTime, vS, aS, w)
       IN Finish(c, r.x, [Goto(c, r.pc, r.err) EXCEPT
                             !.sw = [asked |-> TRUE, v |-> vS, a |-> aS, w |-> w]])
    /\ UNCHANGED <<tm, nCalls>>

\* line 195, inside this.play(): PlaybackController.play() settled
LoadAutoplayResume(c, ok) ==
    /\ At(c, "load", "aplay")
    /\ LET p == playResume(Ctx, c, ok)
       IN Finish(c, p.x, Goto(c, "aplayret", p.err))
    /\ UNCHANGED <<tm, nCalls>>

\* lines 195-200: this.play() settled and load() goes on
LoadAutoplayReturn(c) ==
    /\ At(c, "load", "aplayret")
    /\ IF calls[c].err # NoError
       THEN Finish(c, loadCatch(Ctx, calls[c].err, c), Goto(c, "rejected", calls[c].err))
       ELSE LET r == loadStartTime(Ctx, c, calls[c].startTime)
            IN Finish(c, r.x, Goto(c, r.pc, r.err))
    /\ UNCHANGED <<tm, nCalls>>

\* line 196, inside this.seek(): PlaybackController.seek() settled
LoadSeekResume(c, ok, r) ==
    /\ At(c, "load", "sseek")
    /\ IF ok THEN r \in Landings(calls[c].startTime) ELSE r = 0
    /\ LET q == seekResume(Ctx, c, ok, r)
       IN Finish(c, q.x, Goto(c, "sseekret", q.err))
    /\ UNCHANGED <<tm, nCalls>>

\* lines 196-200: this.seek() settled and load() returns
LoadSeekReturn(c) ==
    /\ At(c, "load", "sseekret")
    /\ IF calls[c].err # NoError
       THEN Finish(c, loadCatch(Ctx, calls[c].err, c), Goto(c, "rejected", calls[c].err))
       ELSE Finish(c, Ctx, Goto(c, "resolved", NoError))
    /\ UNCHANGED <<tm, nCalls>>

\* play(), lines 203-208
PlayCall(c) ==
    /\ IsNew(c)
    /\ LET p == playStart(Ctx, c)
       IN Finish(c, p.x, [New(c, "play") EXCEPT
                             !.pc = IF p.out = "await" THEN "play" ELSE "rejected",
                             !.err = p.err])
    /\ nCalls' = nCalls + 1
    /\ UNCHANGED tm

\* play(), lines 208-215
PlayResume(c, ok) ==
    /\ At(c, "play", "play")
    /\ LET p == playResume(Ctx, c, ok)
       IN Finish(c, p.x, Goto(c, p.out, p.err))
    /\ UNCHANGED <<tm, nCalls>>

\* pause(), lines 218-222
PauseCall(c, ok) ==
    /\ IsNew(c)
    /\ LET p == pauseBody(Ctx, c, ok)
       IN Finish(c, p.x, [New(c, "pause") EXCEPT
                             !.pc = IF p.out = "throw" THEN "rejected" ELSE "resolved",
                             !.err = p.err])
    /\ nCalls' = nCalls + 1
    /\ UNCHANGED tm

\* seek(time), lines 224-232
SeekCall(c, t) ==
    /\ IsNew(c)
    /\ LET q == seekStart(Ctx, c, t)
       IN Finish(c, q.x, [New(c, "seek") EXCEPT
                             !.time = t,
                             !.pc = IF q.out = "await" THEN "seek" ELSE "rejected",
                             !.err = q.err])
    /\ nCalls' = nCalls + 1
    /\ UNCHANGED tm

\* seek(time), lines 232-240
SeekResume(c, ok, r) ==
    /\ At(c, "seek", "seek")
    /\ IF ok THEN r \in Landings(calls[c].time) ELSE r = 0
    /\ LET q == seekResume(Ctx, c, ok, r)
       IN Finish(c, q.x, Goto(c, q.out, q.err))
    /\ UNCHANGED <<tm, nCalls>>

\* stop(), lines 243-250: pause(), then this.seek(0) up to its await; the catch when
\* pause() threw
StopCall(c, ok) ==
    /\ IsNew(c)
    /\ LET p == pauseBody(Ctx, c, ok)
           q == seekStart(p.x, c, 0)
       IN IF p.out = "throw"
          THEN Finish(c, stopCatch(p.x, p.err, c),
                      [New(c, "stop") EXCEPT !.pc = "rejected", !.err = p.err])
          ELSE Finish(c, q.x, [New(c, "stop") EXCEPT
                                  !.time = 0,
                                  !.pc = IF q.out = "await" THEN "seek" ELSE "ret",
                                  !.err = q.err])
    /\ nCalls' = nCalls + 1
    /\ UNCHANGED tm

\* line 246, inside this.seek(0): PlaybackController.seek() settled
StopSeekResume(c, ok, r) ==
    /\ At(c, "stop", "seek")
    /\ IF ok THEN r \in Landings(0) ELSE r = 0
    /\ LET q == seekResume(Ctx, c, ok, r)
       IN Finish(c, q.x, Goto(c, "ret", q.err))
    /\ UNCHANGED <<tm, nCalls>>

\* lines 246-250: this.seek(0) settled and stop() returns
StopReturn(c) ==
    /\ At(c, "stop", "ret")
    /\ IF calls[c].err # NoError
       THEN Finish(c, stopCatch(Ctx, calls[c].err, c), Goto(c, "rejected", calls[c].err))
       ELSE Finish(c, Ctx, Goto(c, "resolved", NoError))
    /\ UNCHANGED <<tm, nCalls>>

Next ==
    \/ \E c \in Slots, autoplay \in BOOLEAN, startTime \in StartTimes :
           LoadCall(c, autoplay, startTime)
    \/ \E c \in Slots, outcome \in {"ok", "noinput", "fail"} : LoadSourceSettles(c, outcome)
    \/ \E c \in Slots, ok, hv, ha \in BOOLEAN : LoadInitSettles(c, ok, hv, ha)
    \/ \E c \in Slots, outcome \in {"ok"} \cup Fetches : LoadMetaSettles(c, outcome)
    \/ \E c \in Slots, vS, aS \in BOOLEAN, w \in Warnings : LoadSwitchSettles(c, vS, aS, w)
    \/ \E c \in Slots, ok \in BOOLEAN : LoadAutoplayResume(c, ok)
    \/ \E c \in Slots : LoadAutoplayReturn(c)
    \/ \E c \in Slots, ok \in BOOLEAN, r \in Times : LoadSeekResume(c, ok, r)
    \/ \E c \in Slots : LoadSeekReturn(c)
    \/ \E c \in Slots : PlayCall(c)
    \/ \E c \in Slots, ok \in BOOLEAN : PlayResume(c, ok)
    \/ \E c \in Slots, ok \in BOOLEAN : PauseCall(c, ok)
    \/ \E c \in Slots, t \in Times : SeekCall(c, t)
    \/ \E c \in Slots, ok \in BOOLEAN, r \in Times : SeekResume(c, ok, r)
    \/ \E c \in Slots, ok \in BOOLEAN : StopCall(c, ok)
    \/ \E c \in Slots, ok \in BOOLEAN, r \in Times : StopSeekResume(c, ok, r)
    \/ \E c \in Slots : StopReturn(c)

Spec == Init /\ [][Next]_vars

----------------------------------------------------------------------------
\* useAVPlay (packages/react): the hook around one component.  The component
\* renders with a playerOptions identity (optsId, the useMemo of lines 83-106) and
\* the identity of an on* handler passed in the options (handler, 0 when none is
\* passed); React runs an effect after the first render and after a render in
\* which one of its dependencies changed, the cleanup the effect returned first.

\* Bounds: playerOptions identities and handler identities in one run.
MaxOpts == 2
MaxHandlers == 2

Handlers == 0..MaxHandlers

\* the handler effect returned no cleanup (line 142)
NoCleanup == [set |-> FALSE, player |-> 0, h |-> 0]

\* lines 109-137: the initialize effect starts the dynamic import and returns
\* nothing, the function of lines 130-135 being the value of the then callback
InitEffect(imps, o) == imps \cup {o}

\* lines 175-179: the cleanup of the handler effect, on the player it captured
HandlerCleanup(ps, cl) ==
    IF cl.set /\ cl.h # 0
    THEN [ps EXCEPT ![cl.player].handlers = @ \ {cl.h}]
    ELSE ps

\* lines 140-179: the handler effect
HandlerEffect(ps, ref, h) ==
    IF ref = 0
    THEN [players |-> ps, cleanup |-> NoCleanup]
    ELSE [players |-> IF h # 0 THEN [ps EXCEPT ![ref].handlers = @ \cup {h}] ELSE ps,
          cleanup |-> [set |-> TRUE, player |-> ref, h |-> h]]

\* the first render and its effects
Mount(h) ==
    /\ phase = "new"
    /\ phase' = "mounted"
    /\ optsId' = 1
    /\ handler' = h
    /\ imports' = InitEffect(imports, 1)
    /\ LET e == HandlerEffect(players, playerRef, h)
       IN players' = e.players /\ hcleanup' = e.cleanup
    /\ UNCHANGED <<playerRef, delivered>>
    /\ UNCHANGED playerVars

\* a later render in which playerOptions, the handler, or both have a new identity
Render(newOptions, h) ==
    /\ phase = "mounted"
    /\ newOptions \/ h # handler
    /\ newOptions => optsId < MaxOpts
    /\ optsId' = IF newOptions THEN optsId + 1 ELSE optsId
    /\ imports' = IF newOptions THEN InitEffect(imports, optsId + 1) ELSE imports
    /\ handler' = h
    /\ IF h # handler
       THEN LET e == HandlerEffect(HandlerCleanup(players, hcleanup), playerRef, h)
            IN players' = e.players /\ hcleanup' = e.cleanup
       ELSE UNCHANGED <<players, hcleanup>>
    /\ UNCHANGED <<phase, playerRef, delivered>>
    /\ UNCHANGED playerVars

\* lines 111-136: the import started for playerOptions o resolves, mounted or not
ImportResolves(o) ==
    /\ o \in imports
    /\ imports' = imports \ {o}
    /\ players' = Append(players, [opts |-> o, subscribed |-> TRUE, destroyed |-> FALSE,
                                   handlers |-> {}])
    /\ playerRef' = Len(players) + 1
    /\ UNCHANGED <<phase, optsId, handler, hcleanup, delivered>>
    /\ UNCHANGED playerVars

\* the component unmounts: React runs the cleanups the effects returned
Unmount ==
    /\ phase = "mounted"
    /\ phase' = "unmounted"
    /\ players' = HandlerCleanup(players, hcleanup)
    /\ hcleanup' = NoCleanup
    /\ UNCHANGED <<optsId, handler, imports, playerRef, delivered>>
    /\ UNCHANGED playerVars

\* a player that was not destroyed emits an event: it reaches the handlers
\* registered on it; wanted is the handler the mounted component passes now
PlayerEmits(p) ==
    /\ p \in 1..Len(players)
    /\ ~players[p].destroyed
    /\ delivered' = [player |-> p, to |-> players[p].handlers,
                     wanted |-> IF phase = "mounted" /\ p = playerRef THEN handler ELSE 0]
    /\ UNCHANGED <<phase, optsId, handler, imports, players, playerRef, hcleanup>>
    /\ UNCHANGED playerVars

HookNext ==
    \/ \E h \in Handlers : Mount(h)
    \/ \E newOptions \in BOOLEAN, h \in Handlers : Render(newOptions, h)
    \/ \E o \in 1..MaxOpts : ImportResolves(o)
    \/ Unmount
    \/ \E p \in 1..MaxOpts : PlayerEmits(p)

HookSpec == Init /\ [][HookNext]_vars

----------------------------------------------------------------------------
\* Properties.  last is the call whose code ran in the last step, so a predicate
\* on last and st speaks of the state at the moment that call stood there.

Resolved(kind) == last.kind = kind /\ last.pc = "resolved"
Rejected(kind) == last.kind = kind /\ last.pc = "rejected"

LoadEvents == <<"loadstart", "loadedmetadata", "loadeddata", "canplay", "canplaythrough">>
IsLoadEvent(n) == \E i \in 1..Len(LoadEvents) : LoadEvents[i] = n
IsSeekEvent(n) == n \in {"seeking", "seeked"}
AwaitsSeek(d) == Pending(d) /\ calls[d].pc \in {"seek", "sseek"}

\* C1: a play() or seek(t) invoked while the lifecycle state is idle rejects,
\* invokes no PlaybackController method, and leaves isPlaying and currentTime
\* as they were before the call.
C1_IdleCallRejects ==
    [][(st.state = "idle" /\ nCalls' = nCalls + 1 /\ last'.kind \in {"play", "seek"})
         => /\ last'.pc = "rejected"
            /\ last'.err.kind = "NoMediaLoaded"
            /\ invoked' = <<>>
            /\ st'.isPlaying = st.isPlaying
            /\ st'.currentTime = st.currentTime]_vars

\* a seek() rejected for "no media loaded" as the second call of a run
C1_Witness ==
    nCalls = 2 /\ Rejected("seek") /\ last.err.kind = "NoMediaLoaded"

\* C2: isPlaying is true only if the lifecycle state is ready or seeking and some
\* load has reached ready before.
C2_PlayingOnlyWhenReady ==
    st.isPlaying => (st.state \in {"ready", "seeking"} /\ everReady)

\* C3 as claimed: when a load() resolves it has emitted the five load events in
\* order, each once, and no call at all emitted an error event between its
\* loadstart and its canplaythrough.
C3_NoErrorDuringLoad ==
    Resolved("load") =>
        /\ SelectSeq(last.own, IsLoadEvent) = LoadEvents
        /\ ~last.errSeen

\* C3 amended: a load() that reaches canplaythrough has itself emitted the five
\* load events in order, each once, and no error event of its own before
\* canplaythrough; a load() that resolves has reached canplaythrough and emitted
\* no error event at all.  (Error events of other calls may fall in between.)
C3_OwnLoadEvents ==
    last.kind = "load" =>
        /\ Resolved("load") =>
              /\ \E i \in 1..Len(last.own) : last.own[i] = "canplaythrough"
              /\ \A i \in 1..Len(last.own) : last.own[i] # "error"
        /\ (\E i \in 1..Len(last.own) : last.own[i] = "canplaythrough") =>
              /\ SelectSeq(last.own, IsLoadEvent) = LoadEvents
              /\ \A i \in 1..Len(last.own) :
                    last.own[i] = "error" =>
                        \E j \in 1..(i - 1) : last.own[j] = "canplaythrough"

\* a load() resolves although another call emitted an error event while it loaded
C3_Witness == Resolved("load") /\ last.errSeen

\* C4: whenever a load() resolves, the state holds a mediaInfo with
\* hasVideo or hasAudio.
C4_ResolvedHasMedia ==
    Resolved("load") =>
        st.mediaInfo.set /\ (st.mediaInfo.hasVideo \/ st.mediaInfo.hasAudio)

\* What load() does guarantee: when it resolves and no other load() was pending
\* while it ran, the state holds the mediaInfo of this load, with hasVideo or
\* hasAudio.
C4_ResolvedHasMediaAlone ==
    (Resolved("load") /\ "load" \notin last.during) =>
        /\ st.mediaInfo.set
        /\ st.mediaInfo.src = last.slot
        /\ st.mediaInfo.hasVideo \/ st.mediaInfo.hasAudio

\* C5: when a load() rejects for lack of a playable track, the lifecycle state is
\* error with that error, the mediaInfo this load committed is in the state,
\* isPlaying is false, and the load emitted none of loadedmetadata, loadeddata,
\* canplay, canplaythrough, warning.
C5_NoPlayableTrack ==
    (Rejected("load") /\ last.err.kind = "NoPlayableTrack") =>
        /\ st.state = "error"
        /\ st.error = last.err
        /\ st.mediaInfo.set /\ st.mediaInfo.src = last.slot
        /\ ~st.isPlaying
        /\ last.own = <<"loadstart", "error">>

\* C6: at the moment a public method rejects, state.error holds the error it
\* rejects with and the last event emitted is an error event carrying it.
C6_FailureRecorded ==
    last.pc = "rejected" =>
        /\ st.error = last.err
        /\ last.err # NoError
        /\ emitted # <<>>
        /\ emitted[Len(emitted)].name = "error"
        /\ emitted[Len(emitted)].err = last.err

\* C7: whenever a stop() resolves, isPlaying is false and currentTime is 0.
C7_StopResets ==
    Resolved("stop") => (~st.isPlaying /\ st.currentTime = 0)

\* What stop() does guarantee: when it resolves and no load(), play(), seek() or
\* other stop() was pending while it ran, isPlaying is false and currentTime is 0, the
\* time the controller reports.
C7_StopResetsAlone ==
    (Resolved("stop") /\ last.during \cap {"load", "play", "seek", "stop"} = {}) =>
        /\ ~st.isPlaying
        /\ st.currentTime = 0
        /\ st.currentTime = ctrl.time

\* C8: once a later load() has begun, no step of the earlier load up to
\* its ready/error decision writes duration, mediaInfo, tracks, lifecycle state
\* or error.
C8_NoStaleWrite ==
    [][\A c \in Slots :
          (/\ calls[c].kind = "load" /\ calls[c].superseded
           /\ calls[c].pc \in {"src", "init", "meta", "switch"}
           /\ last'.slot = c)
          => /\ st'.duration = st.duration
             /\ st'.mediaInfo = st.mediaInfo
             /\ st'.tracks = st.tracks
             /\ st'.state = st.state
             /\ st'.error = st.error]_vars

\* C9: in the step in which a seek fails, the seeking flag is cleared before the
\* error is recorded (the snapshot notified just before the error snapshot is not
\* seeking, and the error snapshot differs from it in state and error only) and
\* is clear afterwards; and the state is seeking only while some
\* seek is pending.
SeekJustFailed ==
    \/ Rejected("seek")
    \/ last.kind = "stop" /\ last.pc = "ret" /\ last.err # NoError
    \/ last.kind = "load" /\ last.pc = "sseekret" /\ last.err # NoError

C9_SeekingCleared ==
    /\ SeekJustFailed =>
          /\ Len(notified) >= 2
          /\ notified[Len(notified) - 1].state # "seeking"
          /\ notified[Len(notified)] =
                 [notified[Len(notified) - 1] EXCEPT !.state = "error", !.error = last.err]
          /\ st.state # "seeking"
    /\ st.state = "seeking" => \E d \in Slots : AwaitsSeek(d)

\* a seek() fails in the controller while the state was seeking: the snapshot
\* before the error shows ready again
C9_Witness ==
    /\ Rejected("seek") /\ last.err.kind = "SeekFailed"
    /\ Len(notified) = 2 /\ notified[1].state = "ready"

\* C10 as claimed: no seeking event is emitted while the seek of another call is
\* still awaiting its seeked.
C10_NoNestedSeeking ==
    Has(emitted, "seeking") => \A d \in Slots \ {last.slot} : ~AwaitsSeek(d)

\* C10 amended: each call emits at most one seeking event and at most one seeked
\* event, the seeked after its own seeking; a seek() that resolves has emitted
\* both, a call awaiting its seek has emitted seeking and not seeked.  (The
\* seeking events of overlapping calls may nest.)
C10_OwnSeekPairs ==
    LET o == SelectSeq(last.own, IsSeekEvent)
    IN /\ o \in {<<>>, <<"seeking">>, <<"seeking", "seeked">>}
       /\ Resolved("seek") => o = <<"seeking", "seeked">>
       /\ last.pc \in {"seek", "sseek"} => o = <<"seeking">>
       /\ Has(emitted, "seeked") => o = <<"seeking", "seeked">>

\* a seeked event is emitted while the seek of another call is still pending
C10_Witness ==
    Has(emitted, "seeked") /\ \E d \in Slots \ {last.slot} : AwaitsSeek(d)

\* C11: a seeking event carries the time its call requested; a seeked event carries
\* the controller's time after the seek, which is also state.currentTime when the
\* event is emitted, whether or not it is the requested time; a step in which a
\* seek fails emits no seeked event and leaves state.currentTime as it was.
RequestedTime(rec) == IF rec.kind = "load" THEN rec.startTime ELSE rec.time
IsSeekError(e) == e.name = "error" /\ e.err.kind \in {"SeekFailed", "NoMediaLoaded"}

C11_SeekPayloads ==
    [][/\ \A i \in 1..Len(emitted') :
            /\ emitted'[i].name = "seeking" => emitted'[i].time = RequestedTime(last')
            /\ emitted'[i].name = "seeked" =>
                  /\ emitted'[i].time = ctrl'.time
                  /\ emitted'[i].time = st'.currentTime
       /\ (\E i \in 1..Len(emitted') : IsSeekError(emitted'[i]) /\ last'.kind # "play") =>
            /\ ~Has(emitted', "seeked")
            /\ st'.currentTime = st.currentTime]_vars

\* a seek(t) resolves with the controller, the state and the seeked event at a
\* time other than t
C11_Witness ==
    /\ Resolved("seek") /\ last.time = MaxTime
    /\ Has(emitted, "seeked") /\ emitted[Len(emitted)].time = 0
    /\ st.currentTime = 0 /\ ctrl.time = 0

\* C12: no snapshot handed to subscribers shows a mediaInfo that reports a video or
\* audio track while the track sequences are still empty, or track sequences
\* without a mediaInfo: the two become visible in the same notification.
C12_MediaInfoWithTracks ==
    \A i \in 1..Len(notified) :
        (notified[i].mediaInfo.set
            /\ (notified[i].mediaInfo.hasVideo \/ notified[i].mediaInfo.hasAudio))
        <=> (notified[i].tracks # EmptyTracks)

\* the failures of load() before its commit: source resolution, track
\* initialization, one of the four metadata fetches
EarlyFailure(e) == e.kind \in {"NoInput", "SourceFailed", "InitFailed", "MetadataFailed"}

\* C13 as claimed: when load() rejects with a failure from before its commit,
\* mediaInfo is null, duration and tracks are at their reset defaults, and the
\* rejecting step did not call PlaybackController.setDuration.
C13_NoMetadataOnEarlyFailure ==
    (Rejected("load") /\ EarlyFailure(last.err)) =>
        /\ st.mediaInfo = NullInfo
        /\ st.duration = 0
        /\ st.tracks = EmptyTracks
        /\ \A i \in 1..Len(invoked) : invoked[i] # "setDuration"

\* C13 amended: a load() that fails before its commit rejects with that error and
\* has itself written no metadata: none of its steps after the reset changes
\* mediaInfo, duration or tracks or calls setDuration.  When no other load() was
\* pending while it ran, the state then holds no metadata at all.  (Metadata in
\* the state at that moment is what another load() committed.)
C13_AttemptWritesNothing ==
    [][(/\ last'.kind = "load"
        /\ \/ last'.pc \in {"init", "meta"}
           \/ last'.pc = "rejected" /\ EarlyFailure(last'.err))
       => /\ st'.mediaInfo = st.mediaInfo
          /\ st'.duration = st.duration
          /\ st'.tracks = st.tracks
          /\ \A i \in 1..Len(invoked') : invoked'[i] # "setDuration"
          /\ last'.pc = "rejected" =>
                /\ st'.error = last'.err
                /\ "load" \notin last'.during =>
                      /\ st'.mediaInfo = NullInfo
                      /\ st'.duration = 0
                      /\ st'.tracks = EmptyTracks]_vars

\* a metadata fetch fails after the TrackManager found a video track of this input
C13_Witness ==
    /\ Rejected("load") /\ last.err.kind = "MetadataFailed"
    /\ tm.src = last.slot /\ tm.video # <<>>
    /\ st.mediaInfo = NullInfo /\ st.tracks = EmptyTracks

\* an error event for a failure of PlaybackController.play() or seek()
TransportError(e) == e.name = "error" /\ e.err.kind \in {"PlayFailed", "SeekFailed"}

\* C14: a step in which a play() or seek() fails in the controller while the
\* lifecycle state is ready or seeking leaves the lifecycle state ready and
\* mediaInfo, tracks and duration unchanged.
C14_ReadyKept ==
    [][((\E i \in 1..Len(emitted') : TransportError(emitted'[i]))
            /\ st.state \in {"ready", "seeking"})
       => /\ st'.state = "ready"
          /\ st'.mediaInfo = st.mediaInfo
          /\ st'.tracks = st.tracks
          /\ st'.duration = st.duration]_vars

\* What a transport failure does keep: mediaInfo, tracks and duration; the
\* lifecycle state becomes error, with the error of the failed call.
C14_MetadataKept ==
    [][(\E i \in 1..Len(emitted') : TransportError(emitted'[i]))
       => /\ st'.state = "error"
          /\ st'.error = emitted'[Len(emitted')].err
          /\ st'.mediaInfo = st.mediaInfo
          /\ st'.tracks = st.tracks
          /\ st'.duration = st.duration]_vars

PausedOnce == pauseBody(Ctx, 1, TRUE).x
PausedTwice == pauseBody(PausedOnce, 1, TRUE).x

C17_PauseIdempotent ==
    /\ [](/\ PausedOnce.s = [st EXCEPT !.isPlaying = FALSE]
          /\ Names(PausedOnce.ev) = <<"pause">>
          /\ PausedTwice.s = PausedOnce.s
          /\ PausedTwice.k = PausedOnce.k
          /\ Names(PausedTwice.ev) = <<"pause", "pause">>
          /\ pauseBody(Ctx, 1, FALSE).x.s = st)
    /\ [][(last'.kind = "pause" /\ last'.pc = "resolved") =>
             /\ st' = [st EXCEPT !.isPlaying = FALSE]
             /\ Names(emitted') = <<"pause">>]_vars

\* a second pause() in a row has returned, with its own pause event
C17_Witness ==
    /\ Resolved("pause") /\ nCalls = 2 /\ last.from = "idle" /\ last.during = {}
    /\ st = IdleState
    /\ Names(emitted) = <<"pause">>

\* C19: a call of load(), play(), seek() or stop() that rejects has emitted exactly
\* one error event, also when the failure came from a nested seek() or play().
\* (pause(), which has no handler of its own, is the matter of C6.)
C19_OneErrorPerFailure ==
    (last.pc = "rejected" /\ last.kind # "pause") =>
        Cardinality({i \in 1..Len(last.own) : last.own[i] = "error"}) = 1

\* The hook's properties, under HookSpec.

\* a player the hook created that is still subscribed or not destroyed
Live(p) == players[p].subscribed \/ ~players[p].destroyed

\* C18: at most one player the hook created is live at a time, and once the
\* component is unmounted none is, also when an import resolves after the unmount.
C18_HookCleansUp ==
    /\ Cardinality({p \in 1..Len(players) : Live(p)}) <= 1
    /\ phase = "unmounted" => \A p \in 1..Len(players) : ~Live(p)

\* C20: an event the player in playerRef emits while the component is mounted
\* reaches the handler the component passes in its options.
C20_NoEventMissed ==
    delivered.wanted # 0 => delivered.wanted \in delivered.to

====
